---- MODULE Spec2Model ----
(***************************************************************************)
(* Model of the Home component of microfone-app (src/unnamed/part_000, the *)
(* version with the volume and sensitivity sliders; src/src/pages/Home is  *)
(* the earlier version without them).                                      *)
(*                                                                         *)
(* The component keeps React state (listening, volume, sensitivity), four  *)
(* refs (mediaStreamRef, audioContextRef, animationRef, gainNodeRef) and   *)
(* starts one asynchronous startListening call per click on "Iniciar".     *)
(* Every startListening call owns a closure: the sensitivity and volume of *)
(* the render it was created in, its stream, its audio context, its gain   *)
(* node and its draw function.  Call c acquires stream c, builds audio     *)
(* context c and gain node c.                                              *)
(*                                                                         *)
(* Numbers.  The code computes in IEEE doubles; the model computes in      *)
(* exact fractions with fixed denominators:                                *)
(*   sensitivity, volume : hundredths (the sliders' step is 0.01)          *)
(*   y coordinates       : units of 1/(128*2*SensSteps) pixel              *)
(*   x coordinates       : units of 1/bufferLength pixel                   *)
(* A sample divided by 128.0, times the canvas height, divided by 2 is     *)
(* exact in doubles, and so is the lerp when sensitivity is 0 or 1 or when *)
(* y = prevY; for the other sensitivities the fraction stands for the      *)
(* double nearest to it.                                                   *)
(***************************************************************************)
EXTENDS Integers, Sequences, FiniteSets, TLC

\* ---------------------------------------------------------------- bounds
\* startListening calls in one behaviour
MaxStarts == 2
\* requestAnimationFrame handles handed out in one behaviour
MaxFrames == 3
\* longest sample buffer (stands for analyser.fftSize = 2048, line 73)
MaxLen == 4

\* ------------------------------------------------------ program constants
\* <canvas width={300} height={70}>
CanvasWidth == 300
CanvasHeight == 70
\* the sliders' step of 0.01: one unit of sensitivity or volume is 1/100
SensSteps == 100
\* useState(0.2) and useState(1), in hundredths
InitialSensitivity == 20
InitialVolume == 100

\* values the sliders are moved to, in hundredths
SensValues == {0, 20, 100}
LiveSens == {20, 100}
VolumeValues == {100, 150}
\* bytes the analyser delivers: both extrema and the zero crossing
SampleValues == {0, 128, 255}

Calls == 1..MaxStarts

VARIABLES
    listening,        \* useState(false)
    volume,           \* useState(1), hundredths
    sensitivity,      \* useState(0.2), hundredths
    mediaStreamRef,   \* 0 = null, else the stream's id
    audioContextRef,  \* 0 = null, else the audio context's id
    animationRef,     \* 0, else the last handle requestAnimationFrame returned
    gainNodeRef,      \* 0 = null, else the gain node's id
    canvasRef,        \* canvasRef.current is the canvas: TRUE while Home is
                      \* mounted, FALSE (null) once React has unmounted it
    calls,            \* startListening calls: position and captured values
    nCalls,           \* startListening calls made so far
    streamLive,       \* streams whose tracks are not stopped
    contextOpen,      \* audio contexts not closed
    gain,             \* gain.value of each gain node created
    rafQueue,         \* pending animation-frame callbacks, in request order
    rafNext,          \* next handle requestAnimationFrame returns
    consoleErrors,    \* console.error calls so far
    devices,          \* useState([]): the deviceIds of the audio inputs listed
    selectedDeviceId, \* useState("")
    loadPc,           \* where loadDevices, called at mount, stands
    probeLive,        \* the stream loadDevices acquired has unstopped tracks
    micSignal,        \* the sample buffers the analyser may deliver
    lastFrame         \* the frame last stroked on the canvas: who drew it,
                      \* the samples it read and the path it stroked

vars == <<listening, volume, sensitivity, mediaStreamRef, audioContextRef,
          animationRef, gainNodeRef, canvasRef, calls, nCalls, streamLive,
          contextOpen, gain, rafQueue, rafNext, consoleErrors, devices,
          selectedDeviceId, loadPc, probeLive, micSignal, lastFrame>>

refs == <<mediaStreamRef, audioContextRef, animationRef, gainNodeRef, canvasRef>>
reactState == <<listening, volume, sensitivity>>
deviceState == <<devices, selectedDeviceId, loadPc, probeLive>>
platform == <<streamLive, contextOpen, gain, rafQueue, rafNext>>

\* ------------------------------------------------------------- rendering
\* y = (dataArray[i] / 128.0) * canvas.height / 2, in units of 1/256 pixel
YRaw_Centred(d) == (d - 128) * CanvasHeight
YRaw(d) == d * CanvasHeight

\* canvas.height / 2 in the units of a smoothed y
HalfHeight == CanvasHeight * 128 * SensSteps

\* smoothedY = prevY + (y - prevY) * sensitivity, in units of 1/(256*SensSteps)
SmoothedY_Reversed(prevY, y, sens) == y * SensSteps + (prevY - y) * sens
SmoothedY(prevY, y, sens) == prevY * SensSteps + (y - prevY) * sens

\* sliceWidth = canvas.width / bufferLength, in units of 1/bufferLength pixel
SliceWidth == CanvasWidth

\* the for loop of draw: one moveTo or lineTo per sample, x advancing
RECURSIVE DrawLoop(_, _, _, _, _)
DrawLoop(dataArray, sens, i, x, path) ==
    IF i < Len(dataArray)
    THEN LET y == YRaw(dataArray[i + 1])
             prevY == IF i > 0 THEN YRaw(dataArray[i]) ELSE y
             smoothedY == SmoothedY(prevY, y, sens)
             seg == [op |-> IF i = 0 THEN "moveTo" ELSE "lineTo",
                     x |-> x, y |-> smoothedY]
         IN DrawLoop(dataArray, sens, i + 1, x + SliceWidth, Append(path, seg))
    ELSE path

\* ctx.lineTo(canvas.width, canvas.height / 2)
ClosePath_Bottom(path, bufferLength) ==
    Append(path, [op |-> "lineTo", x |-> CanvasWidth * bufferLength,
                  y |-> 2 * HalfHeight])
ClosePath(path, bufferLength) ==
    Append(path, [op |-> "lineTo", x |-> CanvasWidth * bufferLength,
                  y |-> HalfHeight])

\* the path one call of draw strokes: beginPath, the loop, the closing lineTo
DrawPath_SkipFirst(dataArray, sens) ==
    ClosePath(DrawLoop(dataArray, sens, 1, SliceWidth, << >>), Len(dataArray))
DrawPath(dataArray, sens) ==
    ClosePath(DrawLoop(dataArray, sens, 0, 0, << >>), Len(dataArray))

NoFrame == [by |-> 0, data |-> << >>, path |-> << >>]

\* sample buffers
Silence(n) == [i \in 1..n |-> 128]
Alternating(n) == [i \in 1..n |-> IF i % 2 = 1 THEN 255 ELSE 0]
LiveBuffers == {Silence(MaxLen), Alternating(MaxLen)}
AllBuffers == UNION {[1..n -> SampleValues] : n \in 1..MaxLen}

\* ------------------------------------------------------------- lifecycle
\* a call's captured volume is dead once gain.value is set from it, and all
\* its locals are dead once it has thrown: the model clears them
UnusedCall == [pc |-> "unused", sensitivity |-> 0, volume |-> 0, hasCtx |-> FALSE,
               constraint |-> << >>]

\* deviceId: selectedDeviceId ? { exact: selectedDeviceId } : undefined
\* (<< >> is undefined, <<id>> is { exact: id })
DeviceConstraint_AlwaysExact(selected) == <<selected>>
DeviceConstraint(selected) == IF selected # "" THEN <<selected>> ELSE << >>

\* what enumerateDevices may resolve to: no device, no audio input, two
\* audio inputs after a camera
Enumerations ==
    { << >>,
      <<[kind |-> "videoinput", deviceId |-> "cam"]>>,
      <<[kind |-> "videoinput", deviceId |-> "cam"],
        [kind |-> "audioinput", deviceId |-> "mic1"],
        [kind |-> "audioinput", deviceId |-> "mic2"]>> }

\* allDevices.filter(kind === "audioinput").map(...): the deviceIds kept
\* (the labels are not modelled)
RECURSIVE AudioInputs(_)
AudioInputs(allDevices) ==
    IF allDevices = << >> THEN << >>
    ELSE IF Head(allDevices).kind = "audioinput"
         THEN <<Head(allDevices).deviceId>> \o AudioInputs(Tail(allDevices))
         ELSE AudioInputs(Tail(allDevices))

\* the steps of startListening that can throw, in program order
FailPoints == <<"getUserMedia", "AudioContext", "createNode", "connect", "none">>
StepOf(f) == CHOOSE k \in 1..Len(FailPoints) : FailPoints[k] = f
\* the call got past step k without throwing
Past(failAt, k) == StepOf(failAt) > k

InitWith(signal, sens) ==
    /\ listening = FALSE
    /\ volume = InitialVolume
    /\ sensitivity = sens
    /\ mediaStreamRef = 0
    /\ audioContextRef = 0
    /\ animationRef = 0
    /\ gainNodeRef = 0
    /\ canvasRef = TRUE
    /\ calls = [c \in Calls |-> UnusedCall]
    /\ nCalls = 0
    /\ streamLive = {}
    /\ contextOpen = {}
    /\ gain = [c \in Calls |-> 0]
    /\ rafQueue = << >>
    /\ rafNext = 1
    /\ consoleErrors = 0
    /\ devices = << >>
    /\ selectedDeviceId = ""
    /\ loadPc = "permission"
    /\ probeLive = FALSE
    /\ micSignal = signal
    /\ lastFrame = NoFrame

Init == InitWith(LiveBuffers, InitialSensitivity)

\* startListening up to its await: the closure captures this render's
\* sensitivity and volume, and getUserMedia is requested with the constraint
\* made from this render's selectedDeviceId
StartListening ==
    /\ nCalls < MaxStarts
    /\ nCalls' = nCalls + 1
    /\ calls' = [calls EXCEPT ![nCalls + 1] =
                    [pc |-> "awaiting", sensitivity |-> sensitivity,
                     volume |-> volume, hasCtx |-> FALSE,
                     constraint |-> DeviceConstraint(selectedDeviceId)]]
    /\ UNCHANGED <<reactState, refs, platform, consoleErrors, deviceState,
                   micSignal, lastFrame>>

\* stopListening
StopListening_Toggle ==
    /\ streamLive' = streamLive \ {mediaStreamRef}
    /\ mediaStreamRef' = 0
    /\ contextOpen' = contextOpen \ {audioContextRef}
    /\ audioContextRef' = 0
    /\ rafQueue' = SelectSeq(rafQueue, LAMBDA f : f.id # animationRef)
    /\ listening' = ~listening
    /\ UNCHANGED <<volume, sensitivity, animationRef, gainNodeRef, canvasRef,
                   calls, nCalls, gain, rafNext, consoleErrors, deviceState,
                   micSignal, lastFrame>>
StopListening_NoSetListening ==
    /\ streamLive' = streamLive \ {mediaStreamRef}
    /\ mediaStreamRef' = 0
    /\ contextOpen' = contextOpen \ {audioContextRef}
    /\ audioContextRef' = 0
    /\ rafQueue' = SelectSeq(rafQueue, LAMBDA f : f.id # animationRef)
    /\ UNCHANGED <<listening, volume, sensitivity, animationRef, gainNodeRef,
                   canvasRef, calls, nCalls, gain, rafNext, consoleErrors,
                   deviceState, micSignal, lastFrame>>
StopListening ==
    /\ streamLive' = IF mediaStreamRef # 0
                     THEN streamLive \ {mediaStreamRef} ELSE streamLive
    /\ mediaStreamRef' = 0
    /\ contextOpen' = IF audioContextRef # 0
                      THEN contextOpen \ {audioContextRef} ELSE contextOpen
    /\ audioContextRef' = 0
    /\ rafQueue' = IF animationRef # 0
                   THEN SelectSeq(rafQueue, LAMBDA f : f.id # animationRef)
                   ELSE rafQueue
    /\ listening' = FALSE
    /\ UNCHANGED <<volume, sensitivity, animationRef, gainNodeRef, canvasRef,
                   calls, nCalls, gain, rafNext, consoleErrors, deviceState,
                   micSignal, lastFrame>>

\* <Button onClick={listening ? stopListening : startListening}>, there to
\* click while Home is mounted
ClickButton ==
    /\ canvasRef
    /\ IF listening THEN StopListening ELSE StartListening

\* one call of draw by call c's closure, with the queue as it is when draw
\* runs; getByteTimeDomainData fills dataArray
Draw_NoReschedule(c, hasCtx, queue) ==
    /\ rafQueue' = queue
    /\ IF hasCtx
       THEN \E dataArray \in micSignal :
               lastFrame' = [by |-> c, data |-> dataArray,
                             path |-> DrawPath(dataArray, calls[c].sensitivity)]
       ELSE UNCHANGED lastFrame
    /\ UNCHANGED <<animationRef, rafNext>>
Draw(c, hasCtx, queue) ==
    IF hasCtx
    THEN /\ \E dataArray \in micSignal :
                lastFrame' = [by |-> c, data |-> dataArray,
                              path |-> DrawPath(dataArray, calls[c].sensitivity)]
         /\ rafQueue' = Append(queue, [id |-> rafNext, call |-> c])
         /\ animationRef' = rafNext
         /\ rafNext' = rafNext + 1
    ELSE /\ rafQueue' = queue
         /\ UNCHANGED <<lastFrame, animationRef, rafNext>>

\* startListening from the await on: getUserMedia settles and the rest of the
\* function runs to its end or to its catch.  ctxOk: getContext("2d") returns
\* a context.  React ignores setListening once Home is unmounted.
StartListeningResume(c, failAt, ctxOk) ==
    /\ calls[c].pc = "awaiting"
    /\ (failAt = "none" /\ ctxOk) => rafNext <= MaxFrames
    /\ streamLive' = IF Past(failAt, 1) THEN streamLive \cup {c} ELSE streamLive
    /\ contextOpen' = IF Past(failAt, 2) THEN contextOpen \cup {c} ELSE contextOpen
    /\ gain' = IF Past(failAt, 3) THEN [gain EXCEPT ![c] = calls[c].volume] ELSE gain
    /\ gainNodeRef' = IF Past(failAt, 3) THEN c ELSE gainNodeRef
    /\ IF failAt = "none"
       THEN /\ Draw(c, canvasRef /\ ctxOk, rafQueue)
            /\ mediaStreamRef' = c
            /\ audioContextRef' = c
            /\ listening' = IF canvasRef THEN TRUE ELSE listening
            /\ calls' = [calls EXCEPT ![c].pc = "done",
                                      ![c].hasCtx = canvasRef /\ ctxOk,
                                      ![c].volume = 0,
                                      ![c].constraint = << >>]
            /\ UNCHANGED consoleErrors
       ELSE /\ consoleErrors' = consoleErrors + 1
            /\ calls' = [calls EXCEPT ![c] = [UnusedCall EXCEPT !.pc = "failed"]]
            /\ UNCHANGED <<listening, mediaStreamRef, audioContextRef,
                           animationRef, rafQueue, rafNext, lastFrame>>
    /\ UNCHANGED <<volume, sensitivity, canvasRef, nCalls, deviceState,
                   micSignal>>

Resume ==
    \E c \in Calls, failAt \in {FailPoints[k] : k \in 1..Len(FailPoints)},
       ctxOk \in BOOLEAN :
        StartListeningResume(c, failAt, ctxOk)

\* the browser runs the oldest pending animation-frame callback
AnimationFrame ==
    /\ rafQueue # << >>
    /\ rafNext <= MaxFrames
    /\ Draw(Head(rafQueue).call, TRUE, Tail(rafQueue))
    /\ UNCHANGED <<reactState, mediaStreamRef, audioContextRef, gainNodeRef,
                   canvasRef, calls, nCalls, streamLive, contextOpen, gain,
                   consoleErrors, deviceState, micSignal>>

\* the volume slider, and the effect on [volume] that follows the render
SetVolume ==
    \E v \in VolumeValues :
        /\ canvasRef
        /\ v # volume
        /\ volume' = v
        /\ gain' = IF gainNodeRef # 0 THEN [gain EXCEPT ![gainNodeRef] = v] ELSE gain
        /\ UNCHANGED <<listening, sensitivity, refs, calls, nCalls, streamLive,
                       contextOpen, rafQueue, rafNext, consoleErrors, deviceState,
                       micSignal, lastFrame>>

\* the sensitivity slider
SetSensitivity(values) ==
    \E s \in values :
        /\ canvasRef
        /\ s # sensitivity
        /\ sensitivity' = s
        /\ UNCHANGED <<listening, volume, refs, calls, nCalls, platform,
                       consoleErrors, deviceState, micSignal, lastFrame>>

Next ==
    \/ ClickButton
    \/ Resume
    \/ AnimationFrame
    \/ SetVolume
    \/ SetSensitivity(LiveSens)

Spec == Init /\ [][Next]_vars

\* stopListening called while the component is idle, not through the button
\* (the button only offers it while listening)
StopWhileIdle ==
    /\ ~listening
    /\ StopListening

NextOps ==
    \/ Next
    \/ StopWhileIdle

\* the component with stopListening also callable while idle
SpecOps == Init /\ [][NextOps]_vars

\* React unmounts Home: the canvas goes and canvasRef.current becomes null.
\* No effect of Home has a cleanup, so nothing else changes.
Unmount ==
    /\ canvasRef
    /\ canvasRef' = FALSE
    /\ UNCHANGED <<reactState, mediaStreamRef, audioContextRef, animationRef,
                   gainNodeRef, calls, nCalls, platform, consoleErrors,
                   deviceState, micSignal, lastFrame>>

NextUnmount ==
    \/ Next
    \/ Unmount

\* the component with its unmounting
SpecUnmount == Init /\ [][NextUnmount]_vars

\* loadDevices, first await: getUserMedia({ audio: true }) settles.  The
\* stream it resolves to is dropped with its tracks live.
LoadDevicesPermission ==
    \E granted \in BOOLEAN :
        /\ loadPc = "permission"
        /\ IF granted
           THEN /\ probeLive' = TRUE
                /\ loadPc' = "enumerating"
                /\ UNCHANGED consoleErrors
           ELSE /\ consoleErrors' = consoleErrors + 1
                /\ loadPc' = "failed"
                /\ UNCHANGED probeLive
        /\ UNCHANGED <<reactState, refs, calls, nCalls, platform, devices,
                       selectedDeviceId, micSignal, lastFrame>>

\* loadDevices, second await: enumerateDevices settles
LoadDevicesEnumerated ==
    \E listed \in BOOLEAN, allDevices \in Enumerations :
        /\ loadPc = "enumerating"
        /\ IF listed
           THEN LET audioInputs == AudioInputs(allDevices)
                IN /\ devices' = audioInputs
                   /\ selectedDeviceId' = IF Len(audioInputs) > 0
                                          THEN audioInputs[1]
                                          ELSE selectedDeviceId
                   /\ loadPc' = "done"
                   /\ UNCHANGED consoleErrors
           ELSE /\ consoleErrors' = consoleErrors + 1
                /\ loadPc' = "failed"
                /\ UNCHANGED <<devices, selectedDeviceId>>
        /\ UNCHANGED <<reactState, refs, calls, nCalls, platform, probeLive,
                       micSignal, lastFrame>>

\* <Select disabled={listening} onValueChange={setSelectedDeviceId}>
SelectDevice ==
    \E k \in 1..Len(devices) :
        /\ canvasRef
        /\ ~listening
        /\ devices[k] # selectedDeviceId
        /\ selectedDeviceId' = devices[k]
        /\ UNCHANGED <<reactState, refs, calls, nCalls, platform, consoleErrors,
                       devices, loadPc, probeLive, micSignal, lastFrame>>

NextDevices ==
    \/ ClickButton
    \/ Resume
    \/ AnimationFrame
    \/ LoadDevicesPermission
    \/ LoadDevicesEnumerated
    \/ SelectDevice

\* the component with the device listing of its mount effect and the device
\* dropdown
SpecDevices == Init /\ [][NextDevices]_vars

\* the renderer on every sample buffer of up to MaxLen samples and every
\* sensitivity of SensValues: one buffer and one sensitivity per behaviour
InitDraw == \E d \in AllBuffers, s \in SensValues : InitWith({d}, s)

NextDraw ==
    \/ ClickButton
    \/ Resume
    \/ AnimationFrame

SpecDraw == InitDraw /\ [][NextDraw]_vars

\* ------------------------------------------------------------ properties
\* startListening calls that ran to their end: the capture sessions
Sessions == {c \in Calls : calls[c].pc = "done"}

\* a step in which a pending animation-frame callback ran draw
IsFrameStep ==
    /\ rafQueue # << >>
    /\ rafNext' = rafNext + 1
    /\ Len(rafQueue') = Len(rafQueue)

\* a step in which a startListening call ended in its catch
IsFailedStart(c) ==
    /\ calls[c].pc = "awaiting"
    /\ calls'[c].pc = "failed"

\* the sensitivity the closure that drew the last frame holds
FrameSens == calls[lastFrame.by].sensitivity

\* C1: in no reachable state do two capture sessions exist at once: at most
\* one stream acquired by a session has unstopped tracks and at most one
\* audio context built by a session is open.
C1_SingleCaptureSession ==
    /\ Cardinality(Sessions \cap streamLive) <= 1
    /\ Cardinality(Sessions \cap contextOpen) <= 1

\* C2: when stopListening returns no draw callback is scheduled, so draw does
\* not run again until a later start.
C2_StopCancelsRenderLoop ==
    [][StopListening => rafQueue' = << >>]_vars

\* C3: when stopListening returns, every stream acquired by a session is
\* stopped and every audio context built by a session is closed, and each
\* teardown step acts on its own handle whatever the other handles are.
C3_StopReleasesResources ==
    [][StopListening =>
        /\ Sessions \cap streamLive' = {}
        /\ Sessions \cap contextOpen' = {}
        /\ mediaStreamRef # 0 => mediaStreamRef \notin streamLive'
        /\ audioContextRef # 0 => audioContextRef \notin contextOpen'
        /\ animationRef # 0 =>
              \A k \in 1..Len(rafQueue') : rafQueue'[k].id # animationRef
      ]_vars

\* C4: a start that fails logs a diagnostic and changes nothing else:
\* listening and the four handles are as before the attempt and the stream
\* and audio context of the failed attempt are not left live.
C4_FailedStartLeavesIdle ==
    [][\A c \in Calls : IsFailedStart(c) =>
        /\ consoleErrors' = consoleErrors + 1
        /\ listening' = listening
        /\ mediaStreamRef' = mediaStreamRef
        /\ audioContextRef' = audioContextRef
        /\ gainNodeRef' = gainNodeRef
        /\ animationRef' = animationRef
        /\ c \notin streamLive'
        /\ c \notin contextOpen'
      ]_vars

\* C5: every frame of a running loop is drawn with the sensitivity the
\* slider has when the frame runs.
C5_FrameReadsCurrentSensitivity ==
    [][IsFrameStep =>
        lastFrame'.path = DrawPath(lastFrame'.data, sensitivity')]_vars

\* C6: stopListening called while idle leaves listening false and the
\* stream, audio-context and pending-frame handles as they were, stops no
\* track, closes no context and logs no error.
C6_StopWhenIdleIsNoOp ==
    [][StopWhileIdle =>
        /\ listening' = FALSE
        /\ mediaStreamRef' = mediaStreamRef
        /\ audioContextRef' = audioContextRef
        /\ animationRef' = animationRef
        /\ streamLive' = streamLive
        /\ contextOpen' = contextOpen
        /\ consoleErrors' = consoleErrors
      ]_vars

\* idle after a start/stop cycle, the stale frame handle still in animationRef:
\* the state stopListening is called in and, as it changes nothing, returns in
C6_Witness ==
    /\ ~listening
    /\ Sessions # {}
    /\ animationRef # 0
    /\ mediaStreamRef = 0
    /\ audioContextRef = 0

\* C7: a frame over N samples emits N+1 segments: moveTo at x = 0 for sample
\* 0, lineTo at x = i*(W/N) for samples 1..N-1, then lineTo (W, H/2).
C7_PathSegments ==
    lastFrame # NoFrame =>
        LET N == Len(lastFrame.data)
            p == lastFrame.path
        IN /\ Len(p) = N + 1
           /\ p[1].op = "moveTo"
           /\ p[1].x = 0
           /\ \A i \in 1..(N - 1) :
                 p[i + 1].op = "lineTo" /\ p[i + 1].x = i * CanvasWidth
           /\ p[N + 1] = [op |-> "lineTo", x |-> CanvasWidth * N, y |-> HalfHeight]

C7_Witness ==
    /\ Len(lastFrame.data) = 4
    /\ Len(lastFrame.path) = 5
    /\ lastFrame.path[4].x = 3 * CanvasWidth

\* C8: with sensitivity 1 every smoothed y is the sample's raw y; with
\* sensitivity 0 it is the previous sample's raw y, and the first sample's
\* own raw y for sample 0.
C8_LerpBoundaryCases ==
    lastFrame # NoFrame =>
        LET N == Len(lastFrame.data)
            p == lastFrame.path
            raw(i) == YRaw(lastFrame.data[i]) * SensSteps
        IN /\ FrameSens = SensSteps => \A i \in 1..N : p[i].y = raw(i)
           /\ FrameSens = 0 =>
                 /\ p[1].y = raw(1)
                 /\ \A i \in 2..N : p[i].y = raw(i - 1)

C8_Witness ==
    /\ lastFrame # NoFrame
    /\ FrameSens = 0
    /\ lastFrame.data = <<0, 255, 128>>
    /\ lastFrame.path[2].y = 0
    /\ lastFrame.path[3].y = 255 * CanvasHeight * SensSteps

\* the frame drawn from [255,0,255,0] with sensitivity 1
IsAlternatingFrame ==
    /\ lastFrame # NoFrame
    /\ lastFrame.data = <<255, 0, 255, 0>>
    /\ FrameSens = SensSteps

\* C9 as stated: for [255,0,255,0] and sensitivity 1 the y-coordinates given
\* to the path are +H/2, -H/2, +H/2, -H/2.
C9_AlternatingIsPlusMinusHalfHeight ==
    IsAlternatingFrame =>
        \A i \in 1..4 :
            lastFrame.path[i].y = IF i % 2 = 1 THEN HalfHeight ELSE -HalfHeight

\* C9 amended: for [255,0,255,0] and sensitivity 1 the raw y-coordinates are
\* 255*H/256, 0, 255*H/256, 0 and the path's y-coordinates are exactly these.
C9_AlternatingReproduced ==
    IsAlternatingFrame =>
        \A i \in 1..4 :
            lastFrame.path[i].y =
                IF i % 2 = 1 THEN 255 * CanvasHeight * SensSteps ELSE 0

C9_Witness ==
    /\ IsAlternatingFrame
    /\ lastFrame.path[1].y = 255 * CanvasHeight * SensSteps
    /\ lastFrame.path[2].y = 0

\* the frame drawn from four samples of silence
IsSilentFrame ==
    /\ lastFrame # NoFrame
    /\ lastFrame.data = <<128, 128, 128, 128>>

\* C10 as stated: for [128,128,128,128] every y of a sample is 0, for every
\* sensitivity, and the path is a flat line at H/2.
C10_SilenceIsZero ==
    IsSilentFrame =>
        /\ \A i \in 1..4 : lastFrame.path[i].y = 0
        /\ lastFrame.path[5].y = HalfHeight

\* C10 amended: for [128,128,128,128] every y of a sample is H/2, for every
\* sensitivity, and so is the closing point: the path is a flat line at H/2.
C10_SilenceIsFlatAtHalfHeight ==
    IsSilentFrame =>
        \A i \in 1..5 : lastFrame.path[i].y = HalfHeight

C10_Witness ==
    /\ IsSilentFrame
    /\ FrameSens = InitialSensitivity
    /\ lastFrame.path[1].y = HalfHeight
    /\ lastFrame.path[4].y = HalfHeight

\* the session the handles refer to has a pending animation-frame callback
SessionFramePending ==
    \E k \in 1..Len(rafQueue) : rafQueue[k].call = mediaStreamRef

\* C13: when stopListening returns, the stream handle, the audio-context
\* handle, the gain-node handle and the pending-frame handle are all cleared.
C13_StopClearsEveryHandle ==
    [][StopListening =>
        /\ mediaStreamRef' = 0
        /\ audioContextRef' = 0
        /\ gainNodeRef' = 0
        /\ animationRef' = 0
      ]_vars

\* C14 as stated: in every state with listening = true a next-frame callback
\* is pending.
C14_ListeningHasPendingFrame ==
    listening => rafQueue # << >>

\* C14 amended: in every state with listening = true whose session found the
\* drawing surface, a callback of that session is pending, and every frame a
\* callback draws requests the next one for the same session.
C14_LoopContinues ==
    /\ [](listening /\ calls[mediaStreamRef].hasCtx => SessionFramePending)
    /\ [][IsFrameStep =>
            \E k \in 1..Len(rafQueue') :
                /\ rafQueue'[k].call = Head(rafQueue).call
                /\ rafQueue'[k].id = rafNext
         ]_vars

C14_Witness ==
    /\ listening
    /\ calls[mediaStreamRef].hasCtx
    /\ rafNext = MaxFrames
    /\ Len(rafQueue) = 1
    /\ SessionFramePending

\* C15: listening is true exactly when both the stream handle and the
\* audio-context handle are set.
C15_ListeningIffHandles ==
    listening <=> (mediaStreamRef # 0 /\ audioContextRef # 0)

C15_Witness ==
    /\ listening
    /\ mediaStreamRef = 2
    /\ audioContextRef = 2
    /\ calls[1].pc = "failed"

\* C16: whenever a capture session is active, the gain of its gain node is
\* the current volume.
C16_GainFollowsVolume ==
    listening => gain[audioContextRef] = volume

\* C11: a frame that runs while the drawing surface is unavailable draws
\* nothing, requests no further frame and raises no error, be it the first
\* frame of a session or a later frame of a running loop.
C11_NoSurfaceNoFrame ==
    [][/\ \A c \in Calls :
            (calls[c].pc = "awaiting" /\ calls'[c].pc = "done"
                /\ ~calls'[c].hasCtx) =>
                /\ lastFrame' = lastFrame
                /\ rafQueue' = rafQueue
                /\ rafNext' = rafNext
                /\ consoleErrors' = consoleErrors
       /\ (~canvasRef /\ rafQueue' # rafQueue) =>
                /\ lastFrame' = lastFrame
                /\ rafQueue' = Tail(rafQueue)
                /\ rafNext' = rafNext
                /\ consoleErrors' = consoleErrors
      ]_vars

\* a startListening call is awaiting its stream
StartInFlight == \E c \in Calls : calls[c].pc = "awaiting"

\* C12: while no audio input is listed (none found, or the listing failed)
\* the selected device id is the empty string and every start requests its
\* stream with no device constraint.
C12_NoDeviceNoConstraint ==
    devices = << >> =>
        /\ selectedDeviceId = ""
        /\ \A c \in Calls :
              calls[c].pc = "awaiting" => calls[c].constraint = << >>

C12_Witness ==
    /\ loadPc = "done"
    /\ devices = << >>
    /\ selectedDeviceId = ""
    /\ nCalls = 1
    /\ calls[1].pc = "awaiting"
    /\ calls[1].constraint = << >>
    /\ consoleErrors = 0

\* C17: whenever the component is idle with no start in flight, no stream it
\* acquired has live tracks, the stream of the device listing included.
C17_IdleHoldsNoLiveStream ==
    (~listening /\ ~StartInFlight) => (streamLive = {} /\ ~probeLive)

====
